---- MODULE Spec2Model ----
(***************************************************************************)
(* Model of faststream's FastAPI lifespan bridge                           *)
(* (src/faststream/broker/fastapi/router.py, StreamRouter._wrap_lifespan)  *)
(* and of the `run` and `publish` commands (src/faststream/cli/main.py).   *)
(*                                                                         *)
(* The lifespan bridge is an async context manager.  Every value of pc[e]  *)
(* is a suspension point (an await or the yield) of one entry e of         *)
(* start_broker_lifespan; every action runs the code from one suspension   *)
(* point to the next one, as the event loop does.                          *)
(***************************************************************************)
EXTENDS Integers, Sequences, FiniteSets, TLC

\* ---------------------------------------------------------------- bounds
MaxEntries == 2     \* lifespan entries (calls of start_broker_lifespan) of one router
MaxHooks == 2       \* registered hooks per hook list
MaxMsgs == 1        \* messages the broker delivers
MaxWorkers == 3     \* largest --workers value of a `run` invocation
MaxScopes == 2      \* message handling scopes open at the same time
MaxFields == 2      \* extra options a ValidationError names as missing

Entries == 1..MaxEntries
Scopes == 1..MaxScopes

\* ------------------------------------------------------- dictionaries
Keys == {"broker", "x"}
Absent == "absent"

EmptyDict == [k \in Keys |-> Absent]

Single(k, v) == [EmptyDict EXCEPT ![k] = v]

\* dict.update that keeps the value of a key already present
DictUpdateKeepOld(d, u) == [k \in Keys |-> IF d[k] # Absent THEN d[k] ELSE u[k]]

\* dict.update(u): every key of u replaces or adds the key of d
DictUpdate(d, u) == [k \in Keys |-> IF u[k] # Absent THEN u[k] ELSE d[k]]

\* truthiness of a returned mapping: None and {} are falsy
Truthy(u) == \E k \in Keys : u[k] # Absent

\* Optional values: None is <<>>, a value v is <<v>>
None == <<>>
Some(v) == <<v>>

\* what the host-supplied lifespan may yield: None or a mapping
HostContexts == {None, Some([broker |-> "v2", x |-> "v1"])}

\* what an awaited after-startup hook does: raise, or return a mapping
\* (None and {} are both the falsy EmptyDict)
HookReturns == {EmptyDict, Single("x", "v1"), Single("x", "v2")}
AfterStartupOutcomes ==
    {[raises |-> TRUE, ret |-> EmptyDict]}
        \cup {[raises |-> FALSE, ret |-> m] : m \in HookReturns}
NoOutcome == [raises |-> FALSE, ret |-> EmptyDict]

VARIABLES
    _lifespan_started,     \* self._lifespan_started
    _after_startup_hooks,  \* self._after_startup_hooks: hooks in registration order
    _on_shutdown_hooks,    \* self._on_shutdown_hooks: hooks in registration order
    setup_state,           \* self.setup_state
    pc,                    \* per entry: the suspension point it waits at
    context,               \* per entry: the local dict `context`
    exc,                   \* per entry: an exception is propagating
    ahIdx,                 \* per entry: position of the after-startup hook awaited
    shIdx,                 \* per entry: position of the on-shutdown hook awaited
    pending,               \* per entry: what the awaited after-startup hook will do
    handed,                \* per entry: what the yield handed to the host
    startedBy,             \* per entry: broker.start() "no" | "called" | "ok" | "raised"
    stops,                 \* per entry: broker.stop() calls made
    warned,                \* per entry: warnings.warn calls made
    ranAfter,              \* per entry: after-startup hooks awaited, in order
    ranShutdown,           \* per entry: on-shutdown hooks awaited, in order
    brokerRunning,         \* the broker delivers messages
    handled,               \* messages whose handling has begun
    docs_router,           \* self.docs_router is set (the documentation routes exist)
    schema,                \* self.schema: "unset" (None) | "set"
    \* ---- the documentation endpoints
    docsReply,             \* response of the last endpoint call, "none" before any
    \* ---- message handling scopes under _BackgroundMiddleware
    scopePc,               \* per scope: "idle" | "handling" | "background" | "after_processed" | "closed"
    faulted,               \* per scope: exc_type passed to __aexit__ is set
    background,            \* per scope: the message carries background work
    bgRuns,                \* per scope: background() calls made
    scopeExc,              \* per scope: an exception leaves __aexit__
    \* ---- one invocation of the `run` command
    reload,                \* --reload
    workers,               \* --workers
    app_obj,               \* type of the object import_from_string resolved
    watchfiles,            \* the WatchReloader import succeeds
    cliPc,                 \* "idle" | "start" | "supervising" | "app_running" | "exited"
    mode,                  \* execution mode selected by `run`
    supervisor,            \* supervisor object constructed by `run`
    procs,                 \* spawned worker processes: -1 running, else the exit code
    inProcessRuns,         \* runs of the application in the invoking process
    error,                 \* exception that ended the command
    exitCode,              \* exit status of the command, -1 while it runs
    cliWarnings,           \* warnings.warn calls made by `run`
    missingFields,         \* len(e.fields) of the ValidationError the application raised
    paramErrors,           \* user-facing parameter errors shown
    \* ---- one invocation of the `publish` command
    rpc,                   \* --rpc
    appArg,                \* the app argument is non-empty
    messageArg,            \* the message argument is non-empty
    importable,            \* import_from_string resolves the app argument
    hasBroker,             \* app_obj.broker is truthy
    pubPc,                 \* "idle" | "start" | "connecting" | "publishing" | "releasing" | "exited"
    output,                \* lines printed by typer.echo, in order
    pubExit,               \* exit status of the command, -1 while it runs
    connects,              \* broker.__aenter__ calls that returned
    releases,              \* broker.__aexit__ calls made
    publishCalls,          \* broker.publish calls made
    pubExc,                \* message of the exception raised inside publish_message
    failedAt,              \* where the first one was raised: "connect" | "publish" | "reply_wait" | "release"
    result                 \* what broker.publish returned

bridgeVars == <<_lifespan_started, _after_startup_hooks, _on_shutdown_hooks, setup_state,
          pc, context, exc, ahIdx, shIdx, pending, handed, startedBy, stops, warned,
          ranAfter, ranShutdown, brokerRunning, handled, docs_router, schema>>

scopeVars == <<scopePc, faulted, background, bgRuns, scopeExc>>

cliVars == <<reload, workers, app_obj, watchfiles, cliPc, mode, supervisor, procs,
             inProcessRuns, error, exitCode, cliWarnings, missingFields, paramErrors>>

\* what only the ValidationError handler of _run_imported_app sets
validationVars == <<missingFields, paramErrors>>

pubVars == <<rpc, appArg, messageArg, importable, hasBroker, pubPc, output, pubExit,
             connects, releases, publishCalls, pubExc, failedAt, result>>

vars == <<bridgeVars, cliVars, pubVars, docsReply, scopeVars>>

\* what the lifespan bridge, the `run` command, the `publish` command, the
\* documentation endpoints and the message scopes leave alone
nonBridgeVars == <<cliVars, pubVars, docsReply, scopeVars>>
nonRunVars == <<bridgeVars, pubVars, docsReply, scopeVars>>
nonPublishVars == <<bridgeVars, cliVars, docsReply, scopeVars>>
nonDocsVars == <<bridgeVars, cliVars, pubVars, scopeVars>>
nonScopeVars == <<bridgeVars, cliVars, pubVars, docsReply>>

\* the documentation state the bridge touches only when an entry begins
docsConfig == <<docs_router, schema>>

routerVars == <<_lifespan_started, _after_startup_hooks, _on_shutdown_hooks, setup_state>>

\* StreamRouter.__init__
InitBridge ==
    /\ _lifespan_started = FALSE
    /\ _after_startup_hooks = <<>>
    /\ _on_shutdown_hooks = <<>>
    /\ setup_state \in BOOLEAN
    /\ pc = [e \in Entries |-> "init"]
    /\ context = [e \in Entries |-> EmptyDict]
    /\ exc = [e \in Entries |-> FALSE]
    /\ ahIdx = [e \in Entries |-> 0]
    /\ shIdx = [e \in Entries |-> 0]
    /\ pending = [e \in Entries |-> NoOutcome]
    /\ handed = [e \in Entries |-> <<>>]
    /\ startedBy = [e \in Entries |-> "no"]
    /\ stops = [e \in Entries |-> 0]
    /\ warned = [e \in Entries |-> 0]
    /\ ranAfter = [e \in Entries |-> <<>>]
    /\ ranShutdown = [e \in Entries |-> <<>>]
    /\ brokerRunning = FALSE
    /\ handled = 0
    /\ docs_router \in BOOLEAN
    /\ schema = "unset"
    /\ docsReply = "none"
    /\ scopePc = [m \in Scopes |-> "idle"]
    /\ faulted = [m \in Scopes |-> FALSE]
    /\ background = [m \in Scopes |-> FALSE]
    /\ bgRuns = [m \in Scopes |-> 0]
    /\ scopeExc = [m \in Scopes |-> FALSE]

\* values `run` can be invoked with
WorkerCounts == (0 - 1)..MaxWorkers
AppTypes == {"FastStream", "AsgiFastStream", "Application", "other"}

\* no `run` command is in progress
CliIdle ==
    /\ reload = FALSE
    /\ workers = 1
    /\ app_obj = "FastStream"
    /\ watchfiles = TRUE
    /\ cliPc = "idle"
    /\ mode = "none"
    /\ supervisor = "none"
    /\ procs = <<>>
    /\ inProcessRuns = 0
    /\ error = "none"
    /\ exitCode = -1
    /\ cliWarnings = 0
    /\ missingFields = 0
    /\ paramErrors = 0

\* no `publish` command is in progress
PubIdle ==
    /\ rpc = FALSE
    /\ appArg = TRUE
    /\ messageArg = TRUE
    /\ importable = TRUE
    /\ hasBroker = TRUE
    /\ pubPc = "idle"
    /\ output = <<>>
    /\ pubExit = -1
    /\ connects = 0
    /\ releases = 0
    /\ publishCalls = 0
    /\ pubExc = "none"
    /\ failedAt = "none"
    /\ result = None

\* the router as constructed with its documentation routes, in a process that
\* runs no command
Init == InitBridge /\ docs_router = TRUE /\ CliIdle /\ PubIdle

\* the router as constructed with or without documentation routes
\* (include_in_schema and schema_url decide, lines 197-200)
InitDocs == InitBridge /\ setup_state = TRUE /\ CliIdle /\ PubIdle

\* `run` after lines 120-135: the arguments are parsed and the application
\* object is imported
InitRun ==
    /\ InitBridge
    /\ setup_state = TRUE
    /\ docs_router = TRUE
    /\ reload \in BOOLEAN
    /\ workers \in WorkerCounts
    /\ app_obj \in AppTypes
    /\ watchfiles \in BOOLEAN
    /\ cliPc = "start"
    /\ mode = "none"
    /\ supervisor = "none"
    /\ procs = <<>>
    /\ inProcessRuns = 0
    /\ error = "none"
    /\ exitCode = -1
    /\ cliWarnings = 0
    /\ missingFields = 0
    /\ paramErrors = 0
    /\ PubIdle

\* `publish` at line 282: invoked with its arguments and options
InitPublish ==
    /\ InitBridge
    /\ setup_state = TRUE
    /\ docs_router = TRUE
    /\ CliIdle
    /\ rpc \in BOOLEAN
    /\ appArg \in BOOLEAN
    /\ messageArg \in BOOLEAN
    /\ importable \in BOOLEAN
    /\ hasBroker \in BOOLEAN
    /\ pubPc = "start"
    /\ output = <<>>
    /\ pubExit = -1
    /\ connects = 0
    /\ releases = 0
    /\ publishCalls = 0
    /\ pubExc = "none"
    /\ failedAt = "none"
    /\ result = None

\* ------------------------------------------------- hook registration
\* the hook registered next is named by its position in the list
\* StreamRouter.after_startup: append to the hook list
after_startup ==
    /\ Len(_after_startup_hooks) < MaxHooks
    /\ _after_startup_hooks' = Append(_after_startup_hooks, Len(_after_startup_hooks) + 1)
    /\ UNCHANGED <<_lifespan_started, _on_shutdown_hooks, setup_state, pc, context, exc,
                   ahIdx, shIdx, pending, handed, startedBy, stops, warned, ranAfter,
                   ranShutdown, brokerRunning, handled>>
    /\ UNCHANGED <<docsConfig, nonBridgeVars>>

\* StreamRouter.on_broker_shutdown: append to the hook list
on_broker_shutdown ==
    /\ Len(_on_shutdown_hooks) < MaxHooks
    /\ _on_shutdown_hooks' = Append(_on_shutdown_hooks, Len(_on_shutdown_hooks) + 1)
    /\ UNCHANGED <<_lifespan_started, _after_startup_hooks, setup_state, pc, context, exc,
                   ahIdx, shIdx, pending, handed, startedBy, stops, warned, ranAfter,
                   ranShutdown, brokerRunning, handled>>
    /\ UNCHANGED <<docsConfig, nonBridgeVars>>

\* ------------------------------------------------ start_broker_lifespan
\* `if self.setup_state: yield context / else: yield`: the value handed to the host
YieldValue(ctx) == IF setup_state THEN Some(ctx) ELSE None

\* the guard without the `_lifespan_started` flag
MustStartAlways == TRUE

\* `if not self._lifespan_started`: this entry has to start the broker
MustStart == ~_lifespan_started

\* a loop that leaves the last registered hook out
HasAfterHookSkipLast(i) == i < Len(_after_startup_hooks)

\* the for loop over self._after_startup_hooks has a hook at position i
\* (the list is read at every iteration, so a hook appended meanwhile is seen)
HasAfterHook(i) == i <= Len(_after_startup_hooks)

\* a shutdown loop that leaves the last registered hook out
HasShutdownHookSkipLast(i) == i < Len(_on_shutdown_hooks)

\* the for loop over self._on_shutdown_hooks has a hook at position i
HasShutdownHook(i) == i <= Len(_on_shutdown_hooks)

\* `for h in self._after_startup_hooks` from position i with the dict ctx:
\* await hook i, or fall out of the loop into the try block and yield
AfterStartupLoop(e, ctx, i) ==
    /\ context' = [context EXCEPT ![e] = ctx]
    /\ IF HasAfterHook(i)
         THEN /\ pc' = [pc EXCEPT ![e] = "after_hook"]
              /\ ahIdx' = [ahIdx EXCEPT ![e] = i]
              /\ ranAfter' = [ranAfter EXCEPT ![e] = Append(@, _after_startup_hooks[i])]
              /\ \E o \in AfterStartupOutcomes : pending' = [pending EXCEPT ![e] = o]
              /\ UNCHANGED handed
         ELSE /\ pc' = [pc EXCEPT ![e] = "yield"]
              /\ handed' = [handed EXCEPT ![e] = Some(YieldValue(ctx))]
              /\ pending' = [pending EXCEPT ![e] = NoOutcome]
              /\ UNCHANGED <<ahIdx, ranAfter>>

\* the finally block: `await self.broker.stop()`; the broker delivers no
\* message once its stop() has been invoked
CallBrokerStop(e) ==
    /\ pc' = [pc EXCEPT ![e] = "broker_stop"]
    /\ stops' = [stops EXCEPT ![e] = @ + 1]
    /\ brokerRunning' = FALSE

\* `for h in self._on_shutdown_hooks` from position i: await hook i, or leave
\* the try block through finally
ShutdownLoop(e, i) ==
    IF HasShutdownHook(i)
      THEN /\ pc' = [pc EXCEPT ![e] = "shutdown_hook"]
           /\ shIdx' = [shIdx EXCEPT ![e] = i]
           /\ ranShutdown' = [ranShutdown EXCEPT ![e] = Append(@, _on_shutdown_hooks[i])]
           /\ UNCHANGED <<stops, brokerRunning>>
      ELSE /\ CallBrokerStop(e)
           /\ UNCHANGED <<shIdx, ranShutdown>>

\* an exception leaves the `async with lifespan_context(app)` block: the
\* host-supplied lifespan is exited with it
LeaveWithException(e) ==
    /\ pc' = [pc EXCEPT ![e] = "host_exit"]
    /\ exc' = [exc EXCEPT ![e] = TRUE]

\* the host drives one startup or shutdown sequence at a time: an entry begins
\* or resumes only while no other entry is inside its sequence
Quiet(e) == \A o \in Entries \ {e} : pc[o] \in {"init", "yield", "closed"}

\* lines 290-305: the entry begins: with a docs router the schema is built and
\* the docs router included in the application; then the host-supplied
\* lifespan is awaited
Enter(e) ==
    /\ pc[e] = "init"
    /\ \A o \in Entries : o < e => pc[o] # "init"
    /\ Quiet(e)
    /\ pc' = [pc EXCEPT ![e] = "host_enter"]
    /\ schema' = (IF docs_router THEN "set" ELSE schema)
    /\ UNCHANGED <<routerVars, context, exc, ahIdx, shIdx, pending, handed, startedBy,
                   stops, warned, ranAfter, ranShutdown, brokerRunning, handled>>
    /\ UNCHANGED <<docs_router, nonBridgeVars>>

\* the host-supplied lifespan raises on entry: nothing of the body runs
HostEnterRaise(e) ==
    /\ pc[e] = "host_enter"
    /\ pc' = [pc EXCEPT ![e] = "closed"]
    /\ exc' = [exc EXCEPT ![e] = TRUE]
    /\ UNCHANGED <<routerVars, context, ahIdx, shIdx, pending, handed, startedBy, stops,
                   warned, ranAfter, ranShutdown, brokerRunning, handled>>
    /\ UNCHANGED <<docsConfig, nonBridgeVars>>

\* a bridge that runs the after-startup hooks only in the entry that starts
\* the broker: the warning path yields at once
HostEnteredHooksPerStart(e, maybe_context) ==
    /\ pc[e] = "host_enter"
    /\ LET base == IF maybe_context = None THEN EmptyDict ELSE maybe_context[1]
           ctx == DictUpdate(base, Single("broker", "self.broker"))
       IN IF MustStart
            THEN /\ pc' = [pc EXCEPT ![e] = "broker_start"]
                 /\ context' = [context EXCEPT ![e] = ctx]
                 /\ startedBy' = [startedBy EXCEPT ![e] = "called"]
                 /\ UNCHANGED <<warned, ahIdx, ranAfter, handed, pending>>
            ELSE /\ warned' = [warned EXCEPT ![e] = @ + 1]
                 /\ pc' = [pc EXCEPT ![e] = "yield"]
                 /\ context' = [context EXCEPT ![e] = ctx]
                 /\ handed' = [handed EXCEPT ![e] = Some(YieldValue(ctx))]
                 /\ UNCHANGED <<startedBy, ahIdx, ranAfter, pending>>
    /\ UNCHANGED <<routerVars, exc, shIdx, stops, ranShutdown, brokerRunning, handled>>
    /\ UNCHANGED <<docsConfig, nonBridgeVars>>

\* lines 305-325: the host-supplied lifespan yields maybe_context; the dict is
\* built, then the broker is started or the warning is emitted
HostEntered(e, maybe_context) ==
    /\ pc[e] = "host_enter"
    /\ LET base == IF maybe_context = None THEN EmptyDict ELSE maybe_context[1]
           ctx == DictUpdate(base, Single("broker", "self.broker"))
       IN IF MustStart
            THEN /\ pc' = [pc EXCEPT ![e] = "broker_start"]
                 /\ context' = [context EXCEPT ![e] = ctx]
                 /\ startedBy' = [startedBy EXCEPT ![e] = "called"]
                 /\ UNCHANGED <<warned, ahIdx, ranAfter, handed, pending>>
            ELSE /\ warned' = [warned EXCEPT ![e] = @ + 1]
                 /\ AfterStartupLoop(e, ctx, 1)
                 /\ UNCHANGED startedBy
    /\ UNCHANGED <<routerVars, exc, shIdx, stops, ranShutdown, brokerRunning, handled>>
    /\ UNCHANGED <<docsConfig, nonBridgeVars>>

\* lines 314-325: broker.start() returned
BrokerStartReturn(e) ==
    /\ pc[e] = "broker_start"
    /\ brokerRunning' = TRUE
    /\ _lifespan_started' = TRUE
    /\ startedBy' = [startedBy EXCEPT ![e] = "ok"]
    /\ AfterStartupLoop(e, context[e], 1)
    /\ UNCHANGED <<_after_startup_hooks, _on_shutdown_hooks, setup_state, exc, shIdx,
                   stops, warned, ranShutdown, handled>>
    /\ UNCHANGED <<docsConfig, nonBridgeVars>>

\* broker.start() raising with the flag set before the call
BrokerStartRaiseFlagSet(e) ==
    /\ pc[e] = "broker_start"
    /\ startedBy' = [startedBy EXCEPT ![e] = "raised"]
    /\ _lifespan_started' = TRUE
    /\ LeaveWithException(e)
    /\ UNCHANGED <<_after_startup_hooks, _on_shutdown_hooks, setup_state, context, ahIdx,
                   shIdx, pending, handed, stops, warned, ranAfter, ranShutdown,
                   brokerRunning, handled>>
    /\ UNCHANGED <<docsConfig, nonBridgeVars>>

\* line 314: broker.start() raised
BrokerStartRaise(e) ==
    /\ pc[e] = "broker_start"
    /\ startedBy' = [startedBy EXCEPT ![e] = "raised"]
    /\ LeaveWithException(e)
    /\ UNCHANGED <<routerVars, context, ahIdx, shIdx, pending, handed, stops, warned,
                   ranAfter, ranShutdown, brokerRunning, handled>>
    /\ UNCHANGED <<docsConfig, nonBridgeVars>>

\* lines 323-332: the awaited after-startup hook returned h_context
AfterHookReturn(e) ==
    /\ pc[e] = "after_hook"
    /\ ~pending[e].raises
    /\ LET h_context == pending[e].ret
       IN AfterStartupLoop(e,
              IF Truthy(h_context) THEN DictUpdate(context[e], h_context) ELSE context[e],
              ahIdx[e] + 1)
    /\ UNCHANGED <<routerVars, exc, shIdx, startedBy, stops, warned, ranShutdown,
                   brokerRunning, handled>>
    /\ UNCHANGED <<docsConfig, nonBridgeVars>>

\* line 323: the awaited after-startup hook raised (outside the try block)
AfterHookRaise(e) ==
    /\ pc[e] = "after_hook"
    /\ pending[e].raises
    /\ pending' = [pending EXCEPT ![e] = NoOutcome]
    /\ LeaveWithException(e)
    /\ UNCHANGED <<routerVars, context, ahIdx, shIdx, handed, startedBy, stops, warned,
                   ranAfter, ranShutdown, brokerRunning, handled>>
    /\ UNCHANGED <<docsConfig, nonBridgeVars>>

\* lines 329-338: the host resumes the generator normally (shutdown event)
HostShutdown(e) ==
    /\ pc[e] = "yield"
    /\ Quiet(e)
    /\ ShutdownLoop(e, 1)
    /\ UNCHANGED <<routerVars, context, exc, ahIdx, pending, handed, startedBy, warned,
                   ranAfter, handled>>
    /\ UNCHANGED <<docsConfig, nonBridgeVars>>

\* a fault at the yield handled like a normal resume: the on-shutdown hooks run
HostFaultRunsHooks(e) ==
    /\ pc[e] = "yield"
    /\ Quiet(e)
    /\ exc' = [exc EXCEPT ![e] = TRUE]
    /\ ShutdownLoop(e, 1)
    /\ UNCHANGED <<routerVars, context, ahIdx, pending, handed, startedBy, warned,
                   ranAfter, handled>>
    /\ UNCHANGED <<docsConfig, nonBridgeVars>>

\* lines 329-338: the host throws an exception into the generator at the yield
HostFault(e) ==
    /\ pc[e] = "yield"
    /\ Quiet(e)
    /\ exc' = [exc EXCEPT ![e] = TRUE]
    /\ CallBrokerStop(e)
    /\ UNCHANGED <<routerVars, context, ahIdx, shIdx, pending, handed, startedBy, warned,
                   ranAfter, ranShutdown, handled>>
    /\ UNCHANGED <<docsConfig, nonBridgeVars>>

\* an on-shutdown hook whose result is merged into the dict
ShutdownHookReturnMerging(e) ==
    /\ pc[e] = "shutdown_hook"
    /\ context' = [context EXCEPT ![e] = DictUpdate(@, Single("x", "v3"))]
    /\ ShutdownLoop(e, shIdx[e] + 1)
    /\ UNCHANGED <<routerVars, exc, ahIdx, pending, handed, startedBy, warned,
                   ranAfter, handled>>
    /\ UNCHANGED <<docsConfig, nonBridgeVars>>

\* lines 334-338: the awaited on-shutdown hook returned
ShutdownHookReturn(e) ==
    /\ pc[e] = "shutdown_hook"
    /\ ShutdownLoop(e, shIdx[e] + 1)
    /\ UNCHANGED <<routerVars, context, exc, ahIdx, pending, handed, startedBy, warned,
                   ranAfter, handled>>
    /\ UNCHANGED <<docsConfig, nonBridgeVars>>

\* an on-shutdown hook raising with no finally block around the loop
ShutdownHookRaiseNoFinally(e) ==
    /\ pc[e] = "shutdown_hook"
    /\ LeaveWithException(e)
    /\ UNCHANGED <<routerVars, context, ahIdx, shIdx, pending, handed, startedBy, stops,
                   warned, ranAfter, ranShutdown, brokerRunning, handled>>
    /\ UNCHANGED <<docsConfig, nonBridgeVars>>

\* lines 335-338: the awaited on-shutdown hook raised
ShutdownHookRaise(e) ==
    /\ pc[e] = "shutdown_hook"
    /\ exc' = [exc EXCEPT ![e] = TRUE]
    /\ CallBrokerStop(e)
    /\ UNCHANGED <<routerVars, context, ahIdx, shIdx, pending, handed, startedBy, warned,
                   ranAfter, ranShutdown, handled>>
    /\ UNCHANGED <<docsConfig, nonBridgeVars>>

\* line 338: broker.stop() returned; the `async with` block is left
BrokerStopReturn(e) ==
    /\ pc[e] = "broker_stop"
    /\ pc' = [pc EXCEPT ![e] = "host_exit"]
    /\ UNCHANGED <<routerVars, context, exc, ahIdx, shIdx, pending, handed, startedBy,
                   stops, warned, ranAfter, ranShutdown, brokerRunning, handled>>
    /\ UNCHANGED <<docsConfig, nonBridgeVars>>

\* line 338: broker.stop() raised
BrokerStopRaise(e) ==
    /\ pc[e] = "broker_stop"
    /\ LeaveWithException(e)
    /\ UNCHANGED <<routerVars, context, ahIdx, shIdx, pending, handed, startedBy, stops,
                   warned, ranAfter, ranShutdown, brokerRunning, handled>>
    /\ UNCHANGED <<docsConfig, nonBridgeVars>>

\* line 305: the host-supplied lifespan has been exited; the scope is closed,
\* the generator's frame (context, the loop positions) and what the host was
\* handed for the scope are gone
HostExit(e) ==
    /\ pc[e] = "host_exit"
    /\ pc' = [pc EXCEPT ![e] = "closed"]
    /\ context' = [context EXCEPT ![e] = EmptyDict]
    /\ ahIdx' = [ahIdx EXCEPT ![e] = 0]
    /\ shIdx' = [shIdx EXCEPT ![e] = 0]
    /\ handed' = [handed EXCEPT ![e] = <<>>]
    /\ ranAfter' = [ranAfter EXCEPT ![e] = <<>>]
    /\ ranShutdown' = [ranShutdown EXCEPT ![e] = <<>>]
    /\ UNCHANGED <<routerVars, exc, pending, startedBy, stops, warned, brokerRunning,
                   handled>>
    /\ UNCHANGED <<docsConfig, nonBridgeVars>>

\* the broker delivers a message to a subscriber: it does so from the
\* completion of broker.start() until broker.stop()
HandleMessage ==
    /\ brokerRunning
    /\ handled < MaxMsgs
    /\ handled' = handled + 1
    /\ UNCHANGED <<routerVars, pc, context, exc, ahIdx, shIdx, pending, handed, startedBy,
                   stops, warned, ranAfter, ranShutdown, brokerRunning>>
    /\ UNCHANGED <<docsConfig, nonBridgeVars>>

Next ==
    \/ after_startup
    \/ on_broker_shutdown
    \/ \E e \in Entries : Enter(e)
    \/ \E e \in Entries : HostEnterRaise(e)
    \/ \E e \in Entries, mc \in HostContexts : HostEntered(e, mc)
    \/ \E e \in Entries : BrokerStartReturn(e)
    \/ \E e \in Entries : BrokerStartRaise(e)
    \/ \E e \in Entries : AfterHookReturn(e)
    \/ \E e \in Entries : AfterHookRaise(e)
    \/ \E e \in Entries : HostShutdown(e)
    \/ \E e \in Entries : HostFault(e)
    \/ \E e \in Entries : ShutdownHookReturn(e)
    \/ \E e \in Entries : ShutdownHookRaise(e)
    \/ \E e \in Entries : BrokerStopReturn(e)
    \/ \E e \in Entries : BrokerStopRaise(e)
    \/ \E e \in Entries : HostExit(e)

Spec == Init /\ [][Next]_vars

\* the lifespan bridge together with the broker's message delivery
NextMsg == Next \/ HandleMessage

SpecMsg == Init /\ [][NextMsg]_vars

\* ------------------------------------------- the documentation endpoints
\* download_app_json_schema, download_app_yaml_schema, serve_asyncapi_schema
DocsEndpoints == {"json", "yaml", "html"}

\* an endpoint without the assert
DocsResponseUnchecked(kind) == kind

\* lines 420-470: every endpoint asserts self.schema, then renders it in its
\* own format
DocsResponse(kind) == IF schema = "unset" THEN "AssertionError" ELSE kind

\* one of the documentation endpoints is called; they exist only on a router
\* that built its docs router (lines 417-418)
DocsRequest(kind) ==
    /\ docs_router
    /\ docsReply' = DocsResponse(kind)
    /\ UNCHANGED nonDocsVars

\* the lifespan bridge together with calls of the documentation endpoints
NextDocs == Next \/ \E kind \in DocsEndpoints : DocsRequest(kind)

SpecDocs == InitDocs /\ [][NextDocs]_vars

\* ------------------------------------------ message handling scopes
\* a router in a process that handles messages
InitScope == Init /\ setup_state = TRUE

\* lines 75-80: `if not exc_type and (background := getattr(message,
\* "background", None))`
AwaitsBackground(exc_type, bg) == ~exc_type /\ bg

\* the broker opens the scope of a consumed message and runs its handler
ScopeEnter(m) ==
    /\ scopePc[m] = "idle"
    /\ scopePc' = [scopePc EXCEPT ![m] = "handling"]
    /\ UNCHANGED <<faulted, background, bgRuns, scopeExc>>
    /\ UNCHANGED nonScopeVars

\* lines 69-83: the handler has ended, with a fault iff exc_type, leaving
\* background work on the message iff bg; __aexit__ awaits background() or
\* goes on to after_processed
AExit(m, exc_type, bg) ==
    /\ scopePc[m] = "handling"
    /\ faulted' = [faulted EXCEPT ![m] = exc_type]
    /\ background' = [background EXCEPT ![m] = bg]
    /\ IF AwaitsBackground(exc_type, bg)
         THEN /\ scopePc' = [scopePc EXCEPT ![m] = "background"]
              /\ bgRuns' = [bgRuns EXCEPT ![m] = @ + 1]
         ELSE /\ scopePc' = [scopePc EXCEPT ![m] = "after_processed"]
              /\ UNCHANGED bgRuns
    /\ UNCHANGED scopeExc
    /\ UNCHANGED nonScopeVars

\* lines 81-83: background() returned; after_processed is awaited
BackgroundReturn(m) ==
    /\ scopePc[m] = "background"
    /\ scopePc' = [scopePc EXCEPT ![m] = "after_processed"]
    /\ UNCHANGED <<faulted, background, bgRuns, scopeExc>>
    /\ UNCHANGED nonScopeVars

\* line 81: background() raised; the exception leaves __aexit__ before
\* after_processed is reached
BackgroundRaise(m) ==
    /\ scopePc[m] = "background"
    /\ scopePc' = [scopePc EXCEPT ![m] = "closed"]
    /\ scopeExc' = [scopeExc EXCEPT ![m] = TRUE]
    /\ UNCHANGED <<faulted, background, bgRuns>>
    /\ UNCHANGED nonScopeVars

\* line 83: after_processed returned or raised (raised iff r); __aexit__ is
\* left and the scope is closed
AfterProcessedDone(m, r) ==
    /\ scopePc[m] = "after_processed"
    /\ scopePc' = [scopePc EXCEPT ![m] = "closed"]
    /\ scopeExc' = [scopeExc EXCEPT ![m] = r]
    /\ UNCHANGED <<faulted, background, bgRuns>>
    /\ UNCHANGED nonScopeVars

NextScope ==
    \/ \E m \in Scopes : ScopeEnter(m)
    \/ \E m \in Scopes, exc_type \in BOOLEAN, bg \in BOOLEAN : AExit(m, exc_type, bg)
    \/ \E m \in Scopes : BackgroundReturn(m)
    \/ \E m \in Scopes : BackgroundRaise(m)
    \/ \E m \in Scopes, r \in BOOLEAN : AfterProcessedDone(m, r)

SpecScope == InitScope /\ [][NextScope]_vars

\* ------------------------------------------------------- the run command
\* the dispatch with the check of line 137 left out
ReloadWithWorkersUnchecked == FALSE

\* line 137: `if reload and workers > 1`
ReloadWithWorkers == reload /\ workers > 1

\* a worker threshold that is off by one
UseWorkersOverTwo == workers > 2

\* line 160: `elif workers > 1`
UseWorkers == workers > 1

\* the command ends with an exception or an exit status
CliExit(err, code) ==
    /\ cliPc' = "exited"
    /\ error' = err
    /\ exitCode' = code

\* _run_imported_app, lines 218-236: the type check, then anyio.run(app_obj.run)
\* begins in the invoking process; a typer.BadParameter ends the command with
\* click's status for a usage error
RunImportedApp ==
    IF app_obj = "other"
      THEN /\ \E code \in {1, 2} : CliExit("BadParameter", code)
           /\ UNCHANGED inProcessRuns
      ELSE /\ cliPc' = "app_running"
           /\ inProcessRuns' = inProcessRuns + 1
           /\ UNCHANGED <<error, exitCode>>

\* lines 137-138: reload with several workers raises SetupError
RunRejectReloadWorkers ==
    /\ cliPc = "start"
    /\ ReloadWithWorkers
    /\ CliExit("SetupError", 1)
    /\ UNCHANGED <<reload, workers, app_obj, watchfiles, mode, supervisor, procs,
                   inProcessRuns, cliWarnings>>
    /\ UNCHANGED <<validationVars, nonRunVars>>

\* reload without the watchfiles backend and without the except clause: the
\* ImportError leaves the command
RunReloadNoFallback ==
    /\ cliPc = "start"
    /\ ~ReloadWithWorkers
    /\ reload /\ ~watchfiles
    /\ CliExit("ImportError", 1)
    /\ UNCHANGED <<reload, workers, app_obj, watchfiles, mode, supervisor, procs,
                   inProcessRuns, cliWarnings>>
    /\ UNCHANGED <<validationVars, nonRunVars>>

\* lines 140-145: reload without the watchfiles backend: warn, then _run(*args)
RunReloadFallback ==
    /\ cliPc = "start"
    /\ ~ReloadWithWorkers
    /\ reload /\ ~watchfiles
    /\ cliWarnings' = cliWarnings + 1
    /\ mode' = "fallback"
    /\ RunImportedApp
    /\ UNCHANGED <<reload, workers, app_obj, watchfiles, supervisor, procs>>
    /\ UNCHANGED <<validationVars, nonRunVars>>

\* lines 147-158: WatchReloader(target=_run, ...).run()
RunWatchReload ==
    /\ cliPc = "start"
    /\ ~ReloadWithWorkers
    /\ reload /\ watchfiles
    /\ mode' = "reload"
    /\ supervisor' = "WatchReloader"
    /\ cliPc' = "supervising"
    /\ UNCHANGED <<reload, workers, app_obj, watchfiles, procs, inProcessRuns, error,
                   exitCode, cliWarnings>>
    /\ UNCHANGED <<validationVars, nonRunVars>>

\* lines 160-168: Multiprocess(target=_run, workers=workers).run()
RunMultiprocess ==
    /\ cliPc = "start"
    /\ ~ReloadWithWorkers /\ ~reload
    /\ UseWorkers
    /\ app_obj = "FastStream"
    /\ mode' = "multiprocess"
    /\ supervisor' = "Multiprocess"
    /\ cliPc' = "supervising"
    /\ UNCHANGED <<reload, workers, app_obj, watchfiles, procs, inProcessRuns, error,
                   exitCode, cliWarnings>>
    /\ UNCHANGED <<validationVars, nonRunVars>>

\* lines 169-176: ASGIMultiprocess(target=app, workers=workers).run()
RunAsgiMultiprocess ==
    /\ cliPc = "start"
    /\ ~ReloadWithWorkers /\ ~reload
    /\ UseWorkers
    /\ app_obj = "AsgiFastStream"
    /\ mode' = "asgi_multiprocess"
    /\ supervisor' = "ASGIMultiprocess"
    /\ cliPc' = "supervising"
    /\ UNCHANGED <<reload, workers, app_obj, watchfiles, procs, inProcessRuns, error,
                   exitCode, cliWarnings>>
    /\ UNCHANGED <<validationVars, nonRunVars>>

\* lines 177-180: several workers and an object that is neither FastStream nor
\* AsgiFastStream: typer.BadParameter
RunUnexpectedAppType ==
    /\ cliPc = "start"
    /\ ~ReloadWithWorkers /\ ~reload
    /\ UseWorkers
    /\ app_obj \notin {"FastStream", "AsgiFastStream"}
    /\ \E code \in {1, 2} : CliExit("BadParameter", code)
    /\ UNCHANGED <<reload, workers, app_obj, watchfiles, mode, supervisor, procs,
                   inProcessRuns, cliWarnings>>
    /\ UNCHANGED <<validationVars, nonRunVars>>

\* a direct run that rejects worker counts below one as a usage error
RunDirectPositiveOnly ==
    /\ cliPc = "start"
    /\ ~ReloadWithWorkers /\ ~reload
    /\ ~UseWorkers
    /\ IF workers < 1
         THEN /\ CliExit("BadParameter", 2)
              /\ UNCHANGED <<mode, inProcessRuns>>
         ELSE /\ mode' = "direct"
              /\ RunImportedApp
    /\ UNCHANGED <<reload, workers, app_obj, watchfiles, supervisor, procs, cliWarnings>>
    /\ UNCHANGED <<validationVars, nonRunVars>>

\* lines 182-188: _run_imported_app(app_obj, ...) in the invoking process
RunDirect ==
    /\ cliPc = "start"
    /\ ~ReloadWithWorkers /\ ~reload
    /\ ~UseWorkers
    /\ mode' = "direct"
    /\ RunImportedApp
    /\ UNCHANGED <<reload, workers, app_obj, watchfiles, supervisor, procs, cliWarnings>>
    /\ UNCHANGED <<validationVars, nonRunVars>>

\* lines 236-240: anyio.run(app_obj.run, ...) returned
AppReturn ==
    /\ cliPc = "app_running"
    /\ CliExit("none", 0)
    /\ UNCHANGED <<reload, workers, app_obj, watchfiles, mode, supervisor, procs,
                   inProcessRuns, cliWarnings>>
    /\ UNCHANGED <<validationVars, nonRunVars>>

\* lines 242-258: anyio.run raised a ValidationError naming k missing fields:
\* one MissingParameter is built whose single TyperOption carries all k names
\* as its declarations, that one error is shown, then sys.exit(1)
AppValidationError(k) ==
    /\ cliPc = "app_running"
    /\ missingFields' = k
    /\ paramErrors' = paramErrors + 1
    /\ CliExit("MissingParameter", 1)
    /\ UNCHANGED <<reload, workers, app_obj, watchfiles, mode, supervisor, procs,
                   inProcessRuns, cliWarnings>>
    /\ UNCHANGED nonRunVars

\* line 236: anyio.run raised another exception, which leaves the command
AppRaise ==
    /\ cliPc = "app_running"
    /\ CliExit("Exception", 1)
    /\ UNCHANGED <<reload, workers, app_obj, watchfiles, mode, supervisor, procs,
                   inProcessRuns, cliWarnings>>
    /\ UNCHANGED <<validationVars, nonRunVars>>

\* worker processes the constructed supervisor keeps alive
WorkerTarget == IF supervisor = "WatchReloader" THEN 1 ELSE workers

\* the supervisor spawns a worker process running the target
SpawnWorker ==
    /\ cliPc = "supervising"
    /\ Len(procs) < WorkerTarget
    /\ procs' = Append(procs, -1)
    /\ UNCHANGED <<reload, workers, app_obj, watchfiles, cliPc, mode, supervisor,
                   inProcessRuns, error, exitCode, cliWarnings>>
    /\ UNCHANGED <<validationVars, nonRunVars>>

\* a worker process ends: the worker runs _run, whose _run_imported_app (line
\* 218) rejects an object that is no Application
WorkerExit(i, code) ==
    /\ cliPc = "supervising"
    /\ i \in 1..Len(procs) /\ procs[i] = -1
    /\ app_obj = "other" => code # 0
    /\ procs' = [procs EXCEPT ![i] = code]
    /\ UNCHANGED <<reload, workers, app_obj, watchfiles, cliPc, mode, supervisor,
                   inProcessRuns, error, exitCode, cliWarnings>>
    /\ UNCHANGED <<validationVars, nonRunVars>>

\* every worker was spawned and has ended: the supervisor's aggregate status is
\* zero iff every worker's is
SupervisorExit ==
    /\ cliPc = "supervising"
    /\ Len(procs) = WorkerTarget
    /\ \A i \in 1..Len(procs) : procs[i] # -1
    /\ CliExit("none", IF \A i \in 1..Len(procs) : procs[i] = 0 THEN 0 ELSE 1)
    /\ UNCHANGED <<reload, workers, app_obj, watchfiles, mode, supervisor, procs,
                   inProcessRuns, cliWarnings>>
    /\ UNCHANGED <<validationVars, nonRunVars>>

NextRun ==
    \/ RunRejectReloadWorkers
    \/ RunReloadFallback
    \/ RunWatchReload
    \/ RunMultiprocess
    \/ RunAsgiMultiprocess
    \/ RunUnexpectedAppType
    \/ RunDirect
    \/ AppReturn
    \/ \E k \in 1..MaxFields : AppValidationError(k)
    \/ AppRaise
    \/ SpawnWorker
    \/ \E i \in 1..MaxWorkers, code \in {0, 1} : WorkerExit(i, code)
    \/ SupervisorExit

SpecRun == InitRun /\ [][NextRun]_vars

\* --------------------------------------------------- the publish command
\* reply payloads an RPC publish can receive
Replies == {"reply1", "reply2"}

\* a line printed by typer.echo: a fixed prefix and the formatted value
Line(prefix, text) == [prefix |-> prefix, text |-> text]

\* messages of the exceptions the broker raises
Failures == {"refused", "timeout", "closed"}

\* what typer.echo prints for a value: nothing but the line end for None
Echoed(r) == IF r = None THEN "" ELSE r[1]

\* a handler that catches everything, SystemExit included
OuterCatchesAll(kind) == TRUE

\* line 302: `except Exception` catches exceptions, not the SystemExit of sys.exit
OuterCatches(kind) == kind = "Exception"

\* the reply is echoed whatever --rpc says
EchoesResultAlways == TRUE

\* line 299: `if rpc`
EchoesResult == rpc

\* lines 302-304: the handler of `publish` prints one line and exits with 1
OuterHandler(printed, msg) ==
    /\ output' = Append(printed, Line("Publish error: ", msg))
    /\ pubExit' = 1
    /\ pubPc' = "exited"

\* lines 311-313: the handler of publish_message prints one line and calls
\* sys.exit(1); the SystemExit leaves anyio.run and passes line 302
InnerHandler(msg) ==
    LET printed == Append(output, Line("Error when broker was publishing: ", msg))
    IN IF OuterCatches("SystemExit")
         THEN OuterHandler(printed, "1")
         ELSE /\ output' = printed
              /\ pubExit' = 1
              /\ pubPc' = "exited"

\* lines 286-297: the argument checks, the import and the broker lookup; then
\* anyio.run(publish_message, ...) enters `async with broker`
PublishStart ==
    /\ pubPc = "start"
    /\ IF ~appArg THEN OuterHandler(output, "App parameter is required.")
       ELSE IF ~messageArg THEN OuterHandler(output, "Message parameter is required.")
       ELSE IF ~importable THEN OuterHandler(output, "import failed")
       ELSE IF ~hasBroker THEN OuterHandler(output, "Broker instance not found in the app.")
       ELSE /\ pubPc' = "connecting"
            /\ UNCHANGED <<output, pubExit>>
    /\ UNCHANGED <<rpc, appArg, messageArg, importable, hasBroker, connects, releases,
                   publishCalls, pubExc, failedAt, result>>
    /\ UNCHANGED nonPublishVars

\* line 309-310: broker.__aenter__ returned, the connection is acquired;
\* broker.publish(**extra) is called
ConnectReturn ==
    /\ pubPc = "connecting"
    /\ pubPc' = "publishing"
    /\ connects' = connects + 1
    /\ publishCalls' = publishCalls + 1
    /\ UNCHANGED <<rpc, appArg, messageArg, importable, hasBroker, output, pubExit,
                   releases, pubExc, failedAt, result>>
    /\ UNCHANGED nonPublishVars

\* line 309: broker.__aenter__ raised: nothing was acquired, __aexit__ is not
\* called, the handler of publish_message runs
ConnectRaise(msg) ==
    /\ pubPc = "connecting"
    /\ pubExc' = msg
    /\ failedAt' = "connect"
    /\ InnerHandler(msg)
    /\ UNCHANGED <<rpc, appArg, messageArg, importable, hasBroker, connects, releases,
                   publishCalls, result>>
    /\ UNCHANGED nonPublishVars

\* line 310: broker.publish returned r (with --rpc the reply, or None when
\* none came); `return` leaves the `async with` block, broker.__aexit__ is
\* called
PublishReturn(r) ==
    /\ pubPc = "publishing"
    /\ r \in (IF rpc THEN {Some(x) : x \in Replies} \cup {None} ELSE {None})
    /\ result' = r
    /\ releases' = releases + 1
    /\ pubPc' = "releasing"
    /\ UNCHANGED <<rpc, appArg, messageArg, importable, hasBroker, output, pubExit,
                   connects, publishCalls, pubExc, failedAt>>
    /\ UNCHANGED nonPublishVars

\* broker.publish raising outside any `async with` block: the handler runs
\* with the connection still held
PublishRaiseUnscoped(phase, msg) ==
    /\ pubPc = "publishing"
    /\ phase \in {"publish"} \cup (IF rpc THEN {"reply_wait"} ELSE {})
    /\ pubExc' = msg
    /\ failedAt' = phase
    /\ InnerHandler(msg)
    /\ UNCHANGED <<rpc, appArg, messageArg, importable, hasBroker, connects, releases,
                   publishCalls, result>>
    /\ UNCHANGED nonPublishVars

\* line 310: broker.publish raised, while publishing or (with --rpc) while
\* waiting for the reply; the exception leaves the `async with` block,
\* broker.__aexit__ is called
PublishRaise(phase, msg) ==
    /\ pubPc = "publishing"
    /\ phase \in {"publish"} \cup (IF rpc THEN {"reply_wait"} ELSE {})
    /\ pubExc' = msg
    /\ failedAt' = phase
    /\ releases' = releases + 1
    /\ pubPc' = "releasing"
    /\ UNCHANGED <<rpc, appArg, messageArg, importable, hasBroker, output, pubExit,
                   connects, publishCalls, result>>
    /\ UNCHANGED nonPublishVars

\* lines 309-313, 297-300: broker.__aexit__ returned; a pending exception
\* reaches the handler of publish_message, otherwise the result is returned
\* to `publish`, which echoes it with --rpc and ends with status 0
ReleaseReturn ==
    /\ pubPc = "releasing"
    /\ IF pubExc # "none"
         THEN InnerHandler(pubExc)
         ELSE /\ output' = (IF EchoesResult THEN Append(output, Line("", Echoed(result)))
                                            ELSE output)
              /\ pubExit' = 0
              /\ pubPc' = "exited"
    /\ UNCHANGED <<rpc, appArg, messageArg, importable, hasBroker, connects, releases,
                   publishCalls, pubExc, failedAt, result>>
    /\ UNCHANGED nonPublishVars

\* line 309: broker.__aexit__ raised; its exception replaces a pending one and
\* reaches the handler of publish_message
ReleaseRaise(msg) ==
    /\ pubPc = "releasing"
    /\ pubExc' = msg
    /\ failedAt' = (IF failedAt = "none" THEN "release" ELSE failedAt)
    /\ InnerHandler(msg)
    /\ UNCHANGED <<rpc, appArg, messageArg, importable, hasBroker, connects, releases,
                   publishCalls, result>>
    /\ UNCHANGED nonPublishVars

NextPublish ==
    \/ PublishStart
    \/ ConnectReturn
    \/ \E msg \in Failures : ConnectRaise(msg)
    \/ \E r \in {None} \cup {Some(x) : x \in Replies} : PublishReturn(r)
    \/ \E phase \in {"publish", "reply_wait"}, msg \in Failures : PublishRaise(phase, msg)
    \/ ReleaseReturn
    \/ \E msg \in Failures : ReleaseRaise(msg)

SpecPublish == InitPublish /\ [][NextPublish]_vars

\* ------------------------------------------------------------ claims
\* broker.start() calls made so far, over all entries
StartCalls == Cardinality({e \in Entries : startedBy[e] # "no"})

\* broker.start() calls that returned, over all entries
StartsOk == Cardinality({e \in Entries : startedBy[e] = "ok"})

RECURSIVE SumOver(_, _)
SumOver(f, S) == IF S = {} THEN 0
                 ELSE LET x == CHOOSE y \in S : TRUE IN f[x] + SumOver(f, S \ {x})

\* broker.stop() calls made so far, over all entries
StopCalls == SumOver(stops, Entries)

\* entry e runs line 313 in this step: it leaves the wait for the host-supplied
\* lifespan with the body entered
ChecksFlag(e) == pc[e] = "host_enter" /\ pc'[e] \notin {"host_enter", "closed"}

\* the yield of entry e happens in this step
Yields(e) == pc[e] # "yield" /\ pc'[e] = "yield"

\* C1: when a second entry e runs the start-or-warn check while the first entry o
\* is serving (it started the broker and sits at its yield, no other entry has
\* begun), broker.start() has been called once in total, by o and not by e, and
\* one warning has been emitted, by e and not by o.
C1_SecondEntryWarns ==
    [][\A e, o \in Entries :
         (/\ e # o
          /\ pc[o] = "yield" /\ startedBy[o] = "ok"
          /\ \A r \in Entries \ {e, o} : pc[r] = "init"
          /\ ChecksFlag(e))
         => /\ StartCalls' = 1
            /\ startedBy'[o] = "ok" /\ startedBy'[e] = "no"
            /\ warned'[e] = 1 /\ warned'[o] = 0
            /\ pc'[e] # "broker_start"]_vars

C1_Witness ==
    /\ pc[1] = "yield" /\ startedBy[1] = "ok" /\ warned[1] = 0
    /\ pc[2] = "yield" /\ startedBy[2] = "no" /\ warned[2] = 1

\* C2: in a scope whose broker.start() succeeded and whose yield handed the
\* context to the host, broker.stop() is not called while the host serves or the
\* on-shutdown hooks run, and has been called exactly once when the generator
\* is left, with or without an exception from an on-shutdown hook.
C2_StopOnceAfterServing ==
    \A e \in Entries :
        (startedBy[e] = "ok" /\ handed[e] # <<>>)
            => /\ pc[e] \in {"yield", "shutdown_hook"} => stops[e] = 0
               /\ pc[e] \in {"broker_stop", "host_exit"} => stops[e] = 1

C2_Witness ==
    \E e \in Entries :
        /\ startedBy[e] = "ok" /\ handed[e] # <<>>
        /\ pc[e] = "broker_stop" /\ exc[e] /\ ranShutdown[e] = <<1>>
        /\ stops[e] = 1

\* C3: broker.stop() is called in a scope only if broker.start() was called and
\* returned in that scope, so the stop calls never outnumber the starts that
\* succeeded.
C3_NoStopWithoutStart ==
    /\ \A e \in Entries : stops[e] > 0 => startedBy[e] = "ok"
    /\ StopCalls <= StartsOk

\* C4: a scope whose broker.start() succeeded has called broker.stop() exactly
\* once when it is left, on every exit path.
C4_StopOnEveryExit ==
    \A e \in Entries :
        (startedBy[e] = "ok" /\ pc[e] \in {"host_exit", "closed"}) => stops[e] = 1

\* C5: an entry yields to the host only when broker.start() has returned and
\* every registered after-startup hook has been awaited to its end; once it has
\* yielded, no after-startup hook is awaited in that scope.
C5_ReadyAfterStartup ==
    [][\A e \in Entries :
         /\ Yields(e) =>
              /\ _lifespan_started' /\ StartsOk' >= 1
              /\ pc[e] \in {"host_enter", "broker_start", "after_hook"}
              /\ ahIdx'[e] = Len(_after_startup_hooks')
              /\ ranAfter'[e] = _after_startup_hooks'
         /\ handed[e] # <<>> =>
              /\ pc'[e] # "after_hook"
              /\ ranAfter'[e] = ranAfter[e] \/ pc'[e] = "closed"]_vars

C5_Witness ==
    \E e \in Entries :
        /\ pc[e] = "yield" /\ startedBy[e] = "ok"
        /\ Len(_after_startup_hooks) = 2 /\ ranAfter[e] = <<1, 2>>

\* a bridge phase in which the host serves: some entry sits at its yield and no
\* entry runs its on-shutdown hooks or stops the broker
BridgeRunning ==
    /\ \E e \in Entries : pc[e] = "yield"
    /\ \A e \in Entries : pc[e] \notin {"shutdown_hook", "broker_stop"}

\* C6: the handling of a message begins only while the bridge is RUNNING: after
\* broker.start() and the after-startup hooks are done and the host is ready,
\* and before the on-shutdown hooks begin.
C6_MessagesBracketed == [][handled' # handled => BridgeRunning]_vars

\* the later mapping wins on every key it holds
LaterWins(d, u) == [k \in Keys |-> IF u[k] = Absent THEN d[k] ELSE u[k]]

\* C7: the after-startup hooks are awaited one after the other in registration
\* order; the dict starts as the host-supplied context overlaid with the broker
\* handle, every hook's returned mapping is overlaid on it with the later value
\* winning, and the yield hands that dict to the host (when setup_state is set).
C7_HooksInOrderLaterWins ==
    /\ [](\A e \in Entries :
            /\ ranAfter[e] = SubSeq(_after_startup_hooks, 1, Len(ranAfter[e]))
            /\ pc[e] = "after_hook" => ahIdx[e] = Len(ranAfter[e]))
    /\ [][\A e \in Entries :
            /\ ChecksFlag(e) =>
                 \E mc \in HostContexts :
                     context'[e] = LaterWins(IF mc = None THEN EmptyDict ELSE mc[1],
                                             Single("broker", "self.broker"))
            /\ (pc[e] = "after_hook" /\ pc'[e] \in {"after_hook", "yield"}
                    /\ <<ahIdx[e], pc[e]>> # <<ahIdx'[e], pc'[e]>>) =>
                 /\ context'[e] = LaterWins(context[e], pending[e].ret)
                 /\ pc'[e] = "after_hook" => ahIdx'[e] = ahIdx[e] + 1
            /\ pc[e] = "broker_start" => context'[e] = context[e]
            /\ (Yields(e) /\ setup_state) => handed'[e] = Some(Some(context'[e]))]_vars

C7_Witness ==
    \E e \in Entries :
        /\ pc[e] = "after_hook" /\ ranAfter[e] = <<1, 2>>
        /\ context[e]["x"] = "v1" /\ pending[e].ret["x"] = "v2"
        /\ context[e]["broker"] = "self.broker"

\* nothing has been constructed, spawned or run by the command
NothingStarted ==
    /\ mode = "none" /\ supervisor = "none"
    /\ procs = <<>> /\ inProcessRuns = 0

\* every spawned worker has ended with status 0
AllWorkersZero == \A i \in 1..Len(procs) : procs[i] = 0

\* C8: `run` with --reload and more than one worker ends with the configuration
\* error and status 1 and has constructed no watcher or supervisor, spawned no
\* process and run no application; the reload modes and the multi-worker modes
\* are never selected together with the other option.
C8_ReloadRejectsWorkers ==
    /\ (reload /\ workers > 1 /\ cliPc # "start")
           => /\ cliPc = "exited" /\ error = "SetupError" /\ exitCode = 1
              /\ NothingStarted
    /\ (reload /\ workers > 1) => NothingStarted
    /\ mode \in {"reload", "fallback"} => workers <= 1
    /\ mode \in {"multiprocess", "asgi_multiprocess"} => ~reload

C8_Witness ==
    /\ reload /\ workers = 2
    /\ cliPc = "exited" /\ error = "SetupError" /\ exitCode = 1

C10_FailFastBeforeSpawn ==
    app_obj = "other"
        => /\ procs = <<>>
           /\ cliPc = "exited" => error # "none"

\* the command fell back to one run in the invoking process: one warning, the
\* target _run called there (its application run has begun unless its type check
\* rejected the object), no watcher or supervisor constructed, no process
\* spawned, and no ImportError or configuration error ended the command
FellBackInProcess ==
    /\ cliWarnings = 1
    /\ mode = "fallback"
    /\ supervisor = "none" /\ procs = <<>>
    /\ inProcessRuns = (IF app_obj = "other" THEN 0 ELSE 1)
    /\ error \notin {"ImportError", "SetupError"}

\* C11: when --reload is given (with at most one worker, the only case in which
\* line 137 lets the command reach the import) and the watchfiles backend cannot
\* be imported, `run` warns once and runs the target once in the invoking
\* process, with no watcher, restart or spawned supervisor, and the missing
\* backend does not end the command; with more workers the command is rejected
\* before the import is attempted, so nothing is warned about and nothing runs.
C11_FallbackWithOneWorker ==
    /\ (reload /\ ~watchfiles /\ workers <= 1 /\ cliPc # "start") => FellBackInProcess
    /\ (reload /\ ~watchfiles /\ workers > 1) => (cliWarnings = 0 /\ NothingStarted)

C11_Witness ==
    /\ reload /\ ~watchfiles /\ workers = 1 /\ app_obj = "FastStream"
    /\ cliPc = "exited" /\ exitCode = 0
    /\ cliWarnings = 1 /\ inProcessRuns = 1 /\ mode = "fallback"

\* the invocation passed the argument checks and the import of lines 287-292
PublishResolved == appArg /\ messageArg /\ importable

\* the publish went through: broker.publish and the release returned
PublishSucceeded == pubPc = "exited" /\ publishCalls = 1 /\ pubExc = "none"

\* C12: a publish that succeeds ends with status 0, printing nothing without
\* --rpc and, with --rpc, the received reply payload as its only line; when the
\* resolved application object has no broker the command ends with status 1, its
\* only line is the diagnostic "Broker instance not found in the app.", and
\* nothing was connected, published or released.
C12_PublishExitAndReply ==
    /\ PublishSucceeded =>
          /\ pubExit = 0
          /\ ~rpc => output = <<>>
          /\ (rpc /\ result # None) => output = <<Line("", result[1])>>
    /\ ~hasBroker =>
          /\ connects = 0 /\ publishCalls = 0 /\ releases = 0
          /\ pubPc \in {"idle", "start", "exited"}
          /\ (PublishResolved /\ pubPc = "exited") =>
                /\ pubExit = 1
                /\ output = <<Line("Publish error: ",
                                   "Broker instance not found in the app.")>>

C12_Witness ==
    /\ rpc /\ pubPc = "exited" /\ pubExit = 0
    /\ result = Some("reply1") /\ output = <<Line("", "reply1")>>

\* C13: when connecting, publishing or waiting for the reply raised, the command
\* has printed exactly one line, the diagnostic of publish_message's handler, and
\* ended with a non-zero status; the handler of `publish` printed nothing on top
\* of it; broker.publish is never called more than once.
C13_OneDiagnosticNoRetry ==
    /\ publishCalls <= 1
    /\ (pubPc = "exited" /\ failedAt \in {"connect", "publish", "reply_wait"}) =>
          /\ output = <<Line("Error when broker was publishing: ", pubExc)>>
          /\ pubExit # 0 /\ pubExit # -1
          /\ \A i \in 1..Len(output) : output[i].prefix # "Publish error: "

C13_Witness ==
    /\ pubPc = "exited" /\ failedAt = "reply_wait" /\ publishCalls = 1
    /\ output = <<Line("Error when broker was publishing: ", "timeout")>>
    /\ pubExit = 1

\* C14: the connection is released only if it was acquired and at most once;
\* when the command has ended every acquired connection has been released,
\* also when broker.publish raised; and whenever a line is printed or the
\* status is set, the release of an acquired connection has already been made.
C14_ConnectionScoped ==
    /\ [](/\ releases <= connects /\ connects <= 1
          /\ pubPc = "exited" => releases = connects
          /\ pubPc = "publishing" => (connects = 1 /\ releases = 0))
    /\ [][(output' # output \/ pubExit' # pubExit) => releases = connects]_vars

C14_Witness ==
    /\ pubPc = "exited" /\ failedAt = "publish" /\ pubExc = "refused"
    /\ connects = 1 /\ releases = 1
    /\ Len(output) = 1 /\ pubExit = 1

\* entry e has completed its startup pass: it reached its yield
StartupPassed(e) == pc[e] \in {"yield", "shutdown_hook"} \/ stops[e] > 0

\* some entry of the lifespan has begun
LifespanBegun == \E e \in Entries : pc[e] # "init"

\* C15 as stated: the schema is unset, and every documentation endpoint fails
\* with the assertion error, in every state before the first startup pass has
\* completed; an endpoint has returned schema content only after one has.
C15_SchemaUnsetUntilStartupDone ==
    /\ (~\E e \in Entries : StartupPassed(e)) =>
          /\ schema = "unset"
          /\ \A kind \in DocsEndpoints : DocsResponse(kind) = "AssertionError"
    /\ docsReply \in DocsEndpoints => \E e \in Entries : StartupPassed(e)

\* C15 amended: on a router with documentation routes the schema is unset, and
\* every documentation endpoint fails with the assertion error, exactly in the
\* states before the first lifespan entry has begun (the entry builds the schema
\* before it awaits the host lifespan and broker.start); from then on every
\* endpoint returns the schema in its own format, and an endpoint has returned
\* content only after an entry has begun.
C15_SchemaUnsetUntilEntryBegins ==
    /\ docs_router =>
          /\ schema = "unset" <=> ~LifespanBegun
          /\ \A kind \in DocsEndpoints :
                DocsResponse(kind) = (IF LifespanBegun THEN kind ELSE "AssertionError")
    /\ ~docs_router => (schema = "unset" /\ docsReply = "none")
    /\ docsReply \in DocsEndpoints => LifespanBegun

C15_Witness ==
    /\ docsReply = "yaml" /\ schema = "set"
    /\ pc[1] = "broker_start" /\ \A e \in Entries : ~StartupPassed(e)

\* C16: in every message handling scope that has closed and whose message
\* carried background work, that work was awaited, whether the handler ended
\* normally or with a fault.
C16_BackgroundAlwaysAwaited ==
    \A m \in Scopes :
        (scopePc[m] = "closed" /\ background[m]) => bgRuns[m] >= 1

\* entry e is past line 315: broker.start() has completed and the entry runs
\* its hooks, serves or shuts down
PastStart(e) ==
    /\ _lifespan_started
    /\ pc[e] \in {"after_hook", "yield", "shutdown_hook", "broker_stop", "host_exit"}

\* entry e has yielded: the host holds the context or the entry shuts down
PastYield(e) == pc[e] \in {"yield", "shutdown_hook", "broker_stop", "host_exit"}

\* C17 as stated: once broker.start() has completed, no step of the bridge (an
\* after-startup hook, an on-shutdown hook, broker.stop) changes the context
\* dict of a scope that is still open.
C17_ContextFrozenAfterStart ==
    [][\A e \in Entries :
         (PastStart(e) /\ pc'[e] # "closed") => context'[e] = context[e]]_vars

\* C17 amended: the context dict is changed only until it is handed to the
\* host: after broker.start() has completed the after-startup hooks still merge
\* their results into it, and from the yield on no step of the bridge (an
\* on-shutdown hook, broker.stop) changes the dict or what the host was handed
\* while the scope is open.
C17_ContextFrozenAfterYield ==
    [][\A e \in Entries :
         /\ (PastYield(e) /\ pc'[e] # "closed")
               => (context'[e] = context[e] /\ handed'[e] = handed[e])
         /\ (PastStart(e) /\ pc'[e] # "closed" /\ context'[e] # context[e])
               => /\ pc[e] = "after_hook"
                  /\ context'[e] = LaterWins(context[e], pending[e].ret)]_vars

C17_Witness ==
    \E e \in Entries :
        /\ pc[e] = "shutdown_hook" /\ ranShutdown[e] = <<1, 2>>
        /\ startedBy[e] = "ok" /\ ranAfter[e] = <<1>>
        /\ context[e]["x"] = "v2" /\ handed[e] = Some(Some(context[e]))

\* C18: a scope whose broker.start() raised leaves with the exception
\* propagating: nothing was handed to the host, no after-startup or on-shutdown
\* hook ran, broker.stop() was not called and no warning emitted; the flag is
\* set only by a start that returned, so an entry that runs the check while no
\* start has returned calls broker.start() again and does not warn.
C18_StartFailurePropagates ==
    /\ [](/\ \A e \in Entries :
               startedBy[e] = "raised" =>
                   /\ exc[e] /\ pc[e] \in {"host_exit", "closed"}
                   /\ handed[e] = <<>>
                   /\ ranAfter[e] = <<>> /\ ranShutdown[e] = <<>>
                   /\ stops[e] = 0 /\ warned[e] = 0
          /\ _lifespan_started <=> StartsOk >= 1)
    /\ [][\A e \in Entries :
            (ChecksFlag(e) /\ StartsOk = 0)
                => (pc'[e] = "broker_start" /\ startedBy'[e] = "called"
                        /\ warned'[e] = warned[e])]_vars

C18_Witness ==
    /\ startedBy[1] = "raised" /\ pc[1] = "closed" /\ exc[1]
    /\ pc[2] = "broker_start" /\ startedBy[2] = "called" /\ warned[2] = 0
    /\ ~_lifespan_started

\* the lifecycle state of the bridge, as a position in
\* NOT_STARTED, STARTING, RUNNING, STOPPING, STOPPED
BridgeState ==
    IF ~_lifespan_started
      THEN IF \E e \in Entries : pc[e] = "broker_start" THEN 1 ELSE 0
      ELSE IF brokerRunning THEN 2
      ELSE IF \E e \in Entries : pc[e] = "broker_stop" THEN 3 ELSE 4

\* C19: once broker.stop() has been invoked, no step invokes broker.start()
\* again and no step takes the bridge back to an earlier lifecycle state.
C19_StoppedIsTerminal ==
    [][StopCalls >= 1 => (StartCalls' = StartCalls /\ BridgeState' >= BridgeState)]_vars

\* broker.stop() is invoked by entry e in this step
StopInvoked(e) == stops'[e] = stops[e] + 1

\* the step that invokes broker.stop() ends a shutdown event: the host resumed
\* the generator normally and every on-shutdown hook awaited so far returned
AfterShutdownEvent(e) == pc[e] \in {"yield", "shutdown_hook"} /\ ~(pc[e] = "yield" /\ exc'[e])

\* the on-shutdown hooks of a scope run one at a time in registration order
ShutdownHooksInOrder ==
    \A e \in Entries :
        /\ ranShutdown[e] = SubSeq(_on_shutdown_hooks, 1, Len(ranShutdown[e]))
        /\ pc[e] = "shutdown_hook" => shIdx[e] = Len(ranShutdown[e])

\* no on-shutdown hook of the scope runs once it has invoked broker.stop()
NoHookAfterStop(e) ==
    (pc[e] \in {"broker_stop", "host_exit"} /\ pc'[e] # "closed")
        => (ranShutdown'[e] = ranShutdown[e] /\ pc'[e] # "shutdown_hook")

\* C20 as stated: on a shutdown event the on-shutdown hooks run one at a time in
\* registration order, every registered hook has started when broker.stop() is
\* invoked, and none runs after it.
C20_AllHooksBeforeStop ==
    /\ []ShutdownHooksInOrder
    /\ [][\A e \in Entries :
            /\ (StopInvoked(e) /\ AfterShutdownEvent(e))
                  => ranShutdown'[e] = _on_shutdown_hooks'
            /\ NoHookAfterStop(e)]_vars

\* C20 amended: on a shutdown event the on-shutdown hooks run one at a time in
\* registration order until one of them raises; when none raised, every
\* registered hook has started when broker.stop() is invoked; when one raised,
\* the hooks registered after it are skipped and broker.stop() is invoked right
\* away; no on-shutdown hook of the scope runs after broker.stop().
C20_HooksBeforeStopUntilRaise ==
    /\ []ShutdownHooksInOrder
    /\ [][\A e \in Entries :
            /\ (StopInvoked(e) /\ AfterShutdownEvent(e) /\ ~exc'[e])
                  => ranShutdown'[e] = _on_shutdown_hooks'
            /\ (StopInvoked(e) /\ pc[e] = "shutdown_hook" /\ exc'[e])
                  => ranShutdown'[e] = ranShutdown[e]
            /\ NoHookAfterStop(e)]_vars

C20_Witness ==
    \E e \in Entries :
        /\ pc[e] = "broker_stop" /\ ~exc[e] /\ stops[e] = 1
        /\ Len(_on_shutdown_hooks) = 2 /\ ranShutdown[e] = <<1, 2>>

\* C21: when the application run raised a validation error naming k >= 1
\* missing extra options, the command has shown exactly k parameter errors, one
\* per missing field, and ended with status 1; the application does not go on
\* running.
C21_OneErrorPerMissingField ==
    missingFields >= 1
        => /\ paramErrors = missingFields
           /\ cliPc = "exited" /\ exitCode = 1

\* the host-supplied lifespan of scope e is entered: it has yielded and its
\* exit has not begun
HostLifespanOpen(e) == pc[e] \notin {"init", "host_enter", "host_exit", "closed"}

\* C22: in every scope broker.start() is invoked only with the host-supplied
\* lifespan entered, and in a scope that started the broker the exit of the
\* host-supplied lifespan begins only after broker.stop() has been invoked
\* (returned or raised), on every exit path.
C22_HostLifespanOutlivesBroker ==
    \A e \in Entries :
        /\ pc[e] = "broker_start" => HostLifespanOpen(e)
        /\ (startedBy[e] # "no" /\ ~HostLifespanOpen(e)) => pc[e] \in {"host_exit", "closed"}
        /\ (startedBy[e] = "ok" /\ ~HostLifespanOpen(e)) => stops[e] >= 1

\* C23: on-shutdown hooks are started only on a normal resume from the yield
\* and after a hook that returned: a fault at the yield invokes broker.stop() at
\* once with no on-shutdown hook run, a hook that raises invokes broker.stop() at
\* once with the later hooks skipped, no hook runs after that, and the exception
\* stays pending while broker.stop() is awaited and the scope is left.
C23_HooksSkippedOnFault ==
    [][\A e \in Entries :
         /\ (pc[e] = "yield" /\ exc'[e])
               => (StopInvoked(e) /\ pc'[e] = "broker_stop" /\ ranShutdown'[e] = <<>>)
         /\ (pc[e] = "shutdown_hook" /\ exc'[e])
               => (StopInvoked(e) /\ pc'[e] = "broker_stop"
                       /\ ranShutdown'[e] = ranShutdown[e])
         /\ (ranShutdown'[e] # ranShutdown[e] /\ pc'[e] # "closed")
               => (pc[e] \in {"yield", "shutdown_hook"} /\ ~exc'[e])
         /\ exc[e] => exc'[e]]_vars

C23_Witness ==
    \E e \in Entries :
        /\ pc[e] = "broker_stop" /\ exc[e] /\ handed[e] # <<>>
        /\ Len(_on_shutdown_hooks) = 2 /\ ranShutdown[e] = <<>>
        /\ stops[e] = 1

\* the execution mode the options and the resolved object call for; "none"
\* where the command is rejected (reload with several workers, several workers
\* with an object that is neither FastStream nor AsgiFastStream)
ExpectedMode ==
    IF reload
      THEN IF workers > 1 THEN "none"
           ELSE IF watchfiles THEN "reload" ELSE "fallback"
      ELSE IF workers > 1
             THEN IF app_obj = "FastStream" THEN "multiprocess"
                  ELSE IF app_obj = "AsgiFastStream" THEN "asgi_multiprocess"
                  ELSE "none"
             ELSE "direct"

\* the supervisor each execution mode constructs
SupervisorOf(m) ==
    IF m = "reload" THEN "WatchReloader"
    ELSE IF m = "multiprocess" THEN "Multiprocess"
    ELSE IF m = "asgi_multiprocess" THEN "ASGIMultiprocess"
    ELSE "none"

\* C24: once `run` has dispatched, exactly one execution mode is selected, the
\* one its options call for, and only that mode's supervisor exists (a rejected
\* command selects none and starts nothing); the direct in-process run, with no
\* supervisor and no spawned process, is selected if and only if --reload is off
\* and the worker count is at most 1, zero and negative counts included.
C24_ExactlyOneMode ==
    /\ cliPc # "start" => mode = ExpectedMode
    /\ supervisor = SupervisorOf(mode)
    /\ mode = "none" =>
          /\ NothingStarted
          /\ cliPc = "exited" => error \in {"SetupError", "BadParameter"}
    /\ mode = "direct" <=> (cliPc # "start" /\ ~reload /\ workers <= 1)
    /\ mode \in {"direct", "fallback"} =>
          /\ procs = <<>>
          /\ inProcessRuns = (IF app_obj = "other" THEN 0 ELSE 1)
    /\ mode \notin {"direct", "fallback"} => inProcessRuns = 0

C24_Witness ==
    /\ ~reload /\ workers = 0 /\ app_obj = "AsgiFastStream"
    /\ mode = "direct" /\ supervisor = "none" /\ procs = <<>>
    /\ cliPc = "exited" /\ exitCode = 0 /\ inProcessRuns = 1

\* entry e is on the warning path after this step: it warned and did not
\* call broker.start()
Duplicate(e) == warned'[e] = 1 /\ startedBy'[e] = "no"

\* C25: an entry on the warning path runs the hooks again: it awaits every
\* registered after-startup hook from the first one on before it yields, merges
\* each returned mapping into its own dict, and on a normal exit with no hook
\* raising it has awaited every registered on-shutdown hook when it invokes
\* broker.stop().
C25_HooksRunPerEntry ==
    [][\A e \in Entries :
         Duplicate(e) =>
             /\ (pc[e] = "host_enter" /\ pc'[e] # "closed") =>
                   IF Len(_after_startup_hooks') > 0
                     THEN pc'[e] = "after_hook" /\ ranAfter'[e] = <<_after_startup_hooks'[1]>>
                     ELSE pc'[e] = "yield"
             /\ Yields(e) => ranAfter'[e] = _after_startup_hooks'
             /\ (pc[e] = "after_hook" /\ pc'[e] \in {"after_hook", "yield"}
                     /\ <<ahIdx[e], pc[e]>> # <<ahIdx'[e], pc'[e]>>)
                   => context'[e] = LaterWins(context[e], pending[e].ret)
             /\ (StopInvoked(e) /\ AfterShutdownEvent(e) /\ ~exc'[e])
                   => ranShutdown'[e] = _on_shutdown_hooks']_vars

C25_Witness ==
    /\ startedBy[1] = "ok" /\ pc[1] = "yield" /\ ranAfter[1] = <<1>>
    /\ startedBy[2] = "no" /\ warned[2] = 1 /\ pc[2] = "shutdown_hook"
    /\ ranAfter[2] = <<1>> /\ context[2]["x"] = "v1"
    /\ ranShutdown[2] = <<1>>

====
